---- MODULE Spec2Model ----
(***************************************************************************)
(* Voice session controller of givingwu/voice-recognition.                 *)
(*                                                                         *)
(* The model follows the VoiceRecorder component in its two variants:      *)
(*   "http" - src/unnamed/part_001 (fetch exchange, in-component playback, *)
(*            continuation window),                                        *)
(*   "ws"   - src/src/components/VoiceRecorder.tsx together with           *)
(*            src/src/components/WebSocketService.tsx (persistent channel, *)
(*            playback inside the channel service),                        *)
(* and the error surface of src/src/hooks/error.hook.ts.                   *)
(*                                                                         *)
(* One action is one handler run to its first await (or to its end): the   *)
(* browser runs callbacks one at a time, so the synchronous part of a      *)
(* handler is atomic.  React state written by setState is modelled as the  *)
(* last value written.  Timers, promises and device events fire in any     *)
(* order the browser allows.                                               *)
(***************************************************************************)
EXTENDS Integers, Sequences, FiniteSets, TLC

\* ------------------------------------------------------------------ bounds
\* number of times the owner may switch isActive to true
MaxActivations == 1
\* wake-word detections explored
MaxDetections == 2
\* chunks a recorder may deliver before it is stopped
MaxChunks == 1
\* largest size of one delivered chunk (0 is an empty chunk)
MaxChunkSize == 1
\* ticks a countdown interval may run on past zero when nobody clears it
MaxOverrun == 1
\* inbound channel messages explored in the "ws" variant
MaxInbound == 1
\* activations explored where one recorder is switched off and on again
MaxReactivations == 2
\* init() calls of the wake-word engine explored
MaxInitCalls == 3
\* engine instances that may be loaded at once before exploration stops
MaxInstances == 2

\* ------------------------------------------------------- program constants
\* let progress = 100 (startContinuousMode)
ProgressStart == 100
\* Math.min(progress + 1, 90) (processing progress of the "ws" variant)
ProcessingCap == 90
\* autoHideDuration = 5000
AutoHideDuration == 5000

VARIABLES
  variant,        \* "http" | "ws": which VoiceRecorder is deployed
  isRecorderActive, \* owner: useState(false), read by its conditional render
  isWebSocketReady, \* owner of the "ws" variant: useState(false)
  isActive,       \* the isActive prop as the recorder last saw it
  mounted,        \* the component is mounted
  activations,    \* how often isActive was switched on
  detections,     \* wake-word detections so far (keywordDetection changes)
  state,          \* useState<RecordingState>
  error,          \* useErrorHandler: { type, message }
  errorTimers,    \* pending setTimeout(clearError, autoHideDuration)
  gumPending,     \* getUserMedia promises not yet settled
  recorders,      \* every MediaRecorder created, with its stream and the
                  \* number of times its onstop handler ran
  mediaRecorder,  \* mediaRecorder.current (0 = null)
  audioStream,    \* audioStream.current (0 = null)
  audioChunks,    \* audioChunks.current: the buffered chunks [size, from]
  ceilingTimers,  \* pending recording-ceiling timeouts (ids)
  timeoutRef,     \* timeoutRef.current (0 = null)
  windows,        \* every startContinuousMode call: its interval and timeout
  progressIntervalRef,       \* progressIntervalRef.current (0 = null)
  continuousModeTimeoutRef,  \* continuousModeTimeoutRef.current (0 = null)
  fetches,        \* every fetch issued: body and promise state
  player,         \* audioPlayer.current: playback state of the element
  plays,          \* pending play() promises
  onCompleteCalls,\* how often onComplete was invoked
  procIntervals,  \* "ws": every processing-progress interval
  wsRef,          \* "ws": wsRef.current is set
  readyState,     \* "ws": readyState of the socket
  sentMessages,   \* "ws": payloads handed to sendMessage
  wsPlayer,       \* "ws": audioPlayerRef.current of the channel service
  wsErrors,       \* "ws": onError calls received by the owner
  inbound,        \* "ws": inbound messages delivered so far
  lastMessage,    \* "ws": size of lastMessage.data (-1 = null)
  accessKey,      \* owner: useState(VITE_ACCESS_KEY || '')
  isInitializing, \* owner of the "ws" variant: isInitializing.current
  isLoaded,       \* usePorcupine: an engine instance is held by the hook
  isListening,    \* usePorcupine: the held instance is subscribed
  effectDeps,     \* accessKey and isLoaded as the init effect last saw them
  instances,      \* engine instances loaded and not released
  initsPending,   \* init() promises not yet settled
  initCalls       \* init() calls so far

recVars == <<gumPending, recorders, mediaRecorder, audioStream, audioChunks,
             ceilingTimers, timeoutRef>>
winVars == <<windows, progressIntervalRef, continuousModeTimeoutRef>>
httpVars == <<fetches, player, plays>>
wsVars == <<procIntervals, wsRef, readyState, sentMessages, wsPlayer, wsErrors,
            inbound, lastMessage>>
errVars == <<error, errorTimers>>
engineVars == <<accessKey, isInitializing, isLoaded, isListening, effectDeps,
               instances, initsPending, initCalls>>
ownerVars == <<variant, isRecorderActive, isWebSocketReady, isActive, mounted,
              activations, detections, engineVars>>
\* everything but the wake-word engine
sessionVars == <<variant, isRecorderActive, isWebSocketReady, isActive,
                mounted, activations, detections, state, errVars, recVars,
                winVars, httpVars, onCompleteCalls, wsVars>>
vars == <<ownerVars, state, errVars, recVars, winVars, httpVars,
          onCompleteCalls, wsVars>>

\* ------------------------------------------------------------ error surface
NoError == [type |-> "null", message |-> <<>>]

\* a clearError that toggles the record instead of resetting it
clearErrorToggles(e) ==
  IF e = NoError THEN [type |-> "recording", message |-> <<"stale">>]
  ELSE NoError

\* clearError: setError({ type: null, message: null })
clearError(e) == NoError

\* formatErrorMessage(error, prefix)
formatErrorMessage(msg, prefix) ==
  IF prefix # "" THEN <<prefix, ": ", msg>> ELSE <<msg>>

\* an error surface whose records never expire
ArmsAutoHideNever == FALSE

\* setErrorWithType arms a timer only for a positive duration
ArmsAutoHide == AutoHideDuration > 0

\* an error surface that queues: the category of an active record is kept
handleErrorKeepsType(msg, type, context) ==
  [type |-> IF error.type # "null" THEN error.type ELSE type,
   message |-> formatErrorMessage(msg, context)]

\* the error record after handleError(error, type, context)
handleError(msg, type, context) ==
  [type |-> type, message |-> formatErrorMessage(msg, context)]

\* number of auto-hide timers after n faults were reported in one handler
TimersAfter(n) == IF ArmsAutoHide THEN errorTimers + n ELSE errorTimers

\* ------------------------------------------------------------ pure helpers
RECURSIVE BlobSize(_)
\* new Blob(chunks).size
BlobSize(chunks) ==
  IF chunks = <<>> THEN 0 ELSE Head(chunks).size + BlobSize(Tail(chunks))

\* ondataavailable: keep only chunks with size > 0
KeepsChunk(size) == size > 0

\* from: the recorder whose dataavailable event carries the chunk
ondataavailable(chunks, from, size) ==
  IF KeepsChunk(size)
  THEN Append(chunks, [size |-> size, from |-> from])
  ELSE chunks

\* a processRecording without the size check: no blob counts as empty
BlobEmptyNever(chunks) == FALSE

\* processRecording: if (audioBlob.size === 0) throw
BlobEmpty(chunks) == BlobSize(chunks) = 0

\* MediaRecorder.stop(), and the user agent inactivating a recorder: the
\* recorder becomes inactive and one task is queued that fires the final
\* dataavailable and then stop
Inactivate(recs, i) ==
  [recs EXCEPT ![i].state = "inactive", ![i].stopQueued = TRUE]

\* a stopRecording that never calls mediaRecorder.stop()
stopRecordingRecsNoStop(recs, mr) == recs

\* a stopRecording that calls stop() whatever the state of the recorder
stopRecordingRecsUnguarded(recs, mr) ==
  IF mr # 0 THEN Inactivate(recs, mr) ELSE recs

\* stopRecording: the recorders after it ran
stopRecordingRecs(recs, mr) ==
  IF mr # 0 /\ recs[mr].state = "recording" THEN Inactivate(recs, mr) ELSE recs

\* stopRecording: the React state after it ran
stopRecordingState(s, mr) ==
  IF mr = 0 THEN s ELSE [s EXCEPT !.isRecording = FALSE]

\* a cleanup that leaves the tracks of the stream running
StopTracksNever(recs, i) == recs

\* track.stop() on every track of stream i; a recorder whose tracks have all
\* ended is inactivated by the user agent
StopTracks(recs, i) ==
  IF i = 0 THEN recs
  ELSE LET r == [recs EXCEPT ![i].live = FALSE]
       IN IF r[i].state = "recording" THEN Inactivate(r, i) ELSE r

\* clearInterval / clearTimeout on the timer a ref points to
ClearInterval(ws, ref) ==
  IF ref # 0 THEN [ws EXCEPT ![ref].intervalOn = FALSE] ELSE ws

ClearWindowTimeout(ws, ref) ==
  IF ref # 0 THEN [ws EXCEPT ![ref].timeoutOn = FALSE] ELSE ws

ClearProcInterval(ps, ref) ==
  IF ref # 0 THEN [ps EXCEPT ![ref].on = FALSE] ELSE ps

\* handleRecordingComplete of the owner: setIsRecorderActive(false)
handleRecordingComplete == FALSE

\* endContinuousMode: the React state after it ran
endContinuousModeState(s) ==
  [s EXCEPT !.continuousMode = FALSE, !.timeoutProgress = 0]

\* ---------------------------------------------------------------- initial
Init ==
  /\ variant \in {"http", "ws"}
  /\ isRecorderActive = FALSE
  /\ isWebSocketReady = FALSE
  /\ isActive = FALSE
  /\ mounted = TRUE
  /\ activations = 0
  /\ detections = 0
  /\ state = [isRecording |-> FALSE, isProcessing |-> FALSE,
              isPlaying |-> FALSE, continuousMode |-> FALSE,
              timeoutProgress |-> 0]
  /\ error = NoError
  /\ errorTimers = 0
  /\ gumPending = 0
  /\ recorders = <<>>
  /\ mediaRecorder = 0
  /\ audioStream = 0
  /\ audioChunks = <<>>
  /\ ceilingTimers = {}
  /\ timeoutRef = 0
  /\ windows = <<>>
  /\ progressIntervalRef = 0
  /\ continuousModeTimeoutRef = 0
  /\ fetches = <<>>
  /\ player = "idle"
  /\ plays = [current |-> FALSE, aborted |-> 0]
  /\ onCompleteCalls = 0
  /\ procIntervals = <<>>
  /\ wsRef \in (IF variant = "ws" THEN BOOLEAN ELSE {FALSE})
  /\ readyState = "CONNECTING"
  /\ sentMessages = <<>>
  /\ wsPlayer = [state |-> "idle", current |-> FALSE, aborted |-> 0]
  /\ wsErrors = 0
  /\ inbound = 0
  /\ lastMessage = 0 - 1
  /\ accessKey = ""
  /\ isInitializing = FALSE
  /\ isLoaded = FALSE
  /\ isListening = FALSE
  /\ effectDeps = [accessKey |-> "", isLoaded |-> FALSE]
  /\ instances = 0
  /\ initsPending = 0
  /\ initCalls = 0

\* ------------------------------------------------- activation and teardown
\* cleanup(), run on the recorders left by what ran before it
cleanup(recs) ==
  /\ recorders' = StopTracks(recs, audioStream)
  /\ ceilingTimers' = ceilingTimers \ {timeoutRef}
  /\ windows' = IF variant = "http"
                THEN ClearWindowTimeout(
                       ClearInterval(windows, progressIntervalRef),
                       continuousModeTimeoutRef)
                ELSE windows
  /\ procIntervals' = IF variant = "ws"
                      THEN ClearProcInterval(procIntervals, progressIntervalRef)
                      ELSE procIntervals
  /\ error' = clearError(error)

\* the owner's conditional render: {isRecorderActive && <VoiceRecorder/>},
\* in the "ws" variant {isRecorderActive && isWebSocketReady && ...}
Rendered(active, ready) == active /\ (variant = "http" \/ ready)

\* an isActive effect that runs on every detection
BeginsSessionAlways(active) == TRUE

\* the isActive effect runs initializeRecording() only when the prop changes
\* from false to true
BeginsSession(active) == ~active

\* keywordDetection effect of the owner: setIsRecorderActive(true).  When
\* this renders the recorder with isActive true, the isActive effect runs
\* initializeRecording(), which requests the microphone; when the recorder is
\* already active nothing is re-rendered.  limit bounds the activations
WakeWord(limit) ==
  /\ mounted
  /\ detections < MaxDetections
  /\ isActive \/ activations < limit
  /\ detections' = detections + 1
  /\ isRecorderActive' = TRUE
  /\ LET starts == BeginsSession(isActive) /\ Rendered(TRUE, isWebSocketReady)
     IN /\ isActive' = (isActive \/ starts)
        /\ activations' = IF starts THEN activations + 1 ELSE activations
        /\ gumPending' = IF starts THEN gumPending + 1 ELSE gumPending
  /\ UNCHANGED <<engineVars, variant, isWebSocketReady, mounted, state, errVars,
                 recorders, mediaRecorder, audioStream, audioChunks,
                 ceilingTimers, timeoutRef, winVars, httpVars,
                 onCompleteCalls, wsVars>>

WakeWordDetected == WakeWord(MaxActivations)

\* isActive effect, isActive = false: stopRecording(); cleanup().  Taken
\* when an owner that keeps the recorder mounted switches the prop off
Deactivate ==
  /\ mounted /\ isActive
  /\ isRecorderActive' = FALSE
  /\ isActive' = FALSE
  /\ state' = stopRecordingState(state, mediaRecorder)
  /\ cleanup(stopRecordingRecs(recorders, mediaRecorder))
  /\ UNCHANGED <<engineVars, variant, isWebSocketReady, mounted, activations,
                 detections, errorTimers, gumPending,
                 mediaRecorder, audioStream, audioChunks, timeoutRef,
                 progressIntervalRef, continuousModeTimeoutRef, httpVars,
                 onCompleteCalls, wsRef, readyState, sentMessages, wsPlayer,
                 wsErrors, inbound,
                 lastMessage>>

\* unmount effect: cleanup().  The owner renders the recorder only while
\* isRecorderActive, so the commit that follows handleRecordingComplete
\* unmounts it; the owner itself may be unmounted at any time
Unmount ==
  /\ mounted
  /\ mounted' = FALSE
  /\ cleanup(recorders)
  /\ UNCHANGED <<engineVars, variant, isRecorderActive, isWebSocketReady, isActive,
                 activations, detections, state, errorTimers, gumPending, mediaRecorder, audioStream, audioChunks,
                 timeoutRef, progressIntervalRef, continuousModeTimeoutRef,
                 httpVars, onCompleteCalls, wsRef, readyState, sentMessages,
                 wsPlayer, wsErrors, inbound,
                 lastMessage>>

\* ------------------------------------------------------------- recording
\* initializeRecording after getUserMedia resolved, with startRecording();
\* startThrows: MediaRecorder.start() throws
GetUserMediaResolves(startThrows) ==
  /\ gumPending > 0
  /\ gumPending' = gumPending - 1
  /\ LET i == Len(recorders) + 1 IN
       /\ recorders' = Append(recorders,
            [state |-> IF startThrows THEN "inactive" ELSE "recording",
             live |-> TRUE, stopQueued |-> FALSE, stops |-> 0])
       /\ audioStream' = i
       /\ mediaRecorder' = i
       /\ audioChunks' = <<>>
       /\ IF startThrows
          THEN /\ error' = handleError("StartFailed", "recording",
                                       "StartRecordingFailed")
               /\ errorTimers' = TimersAfter(1)
               /\ UNCHANGED <<state, ceilingTimers, timeoutRef>>
          ELSE /\ state' = [state EXCEPT !.isRecording = TRUE]
               /\ error' = clearError(error)
               /\ ceilingTimers' = ceilingTimers \cup {i}
               /\ timeoutRef' = i
               /\ UNCHANGED errorTimers
  /\ UNCHANGED <<ownerVars, winVars, httpVars, onCompleteCalls, wsVars>>

\* an initializeRecording whose catch swallows the rejection
GetUserMediaRejectsSilently ==
  /\ gumPending > 0
  /\ gumPending' = gumPending - 1
  /\ UNCHANGED <<ownerVars, state, errVars, recorders, mediaRecorder,
                 audioStream, audioChunks, ceilingTimers, timeoutRef, winVars,
                 httpVars, onCompleteCalls, wsVars>>

\* initializeRecording, catch: getUserMedia rejected
GetUserMediaRejects ==
  /\ gumPending > 0
  /\ gumPending' = gumPending - 1
  /\ error' = handleError("DeviceUnavailable", "recording",
                          "InitRecordingFailed")
  /\ errorTimers' = TimersAfter(1)
  /\ UNCHANGED <<ownerVars, state, recorders, mediaRecorder, audioStream,
                 audioChunks, ceilingTimers, timeoutRef, winVars, httpVars,
                 onCompleteCalls, wsVars>>

\* ondataavailable while recorder i records
ChunkDelivered(i, size) ==
  /\ recorders[i].state = "recording"
  /\ Len(audioChunks) < MaxChunks
  /\ audioChunks' = ondataavailable(audioChunks, i, size)
  /\ UNCHANGED <<ownerVars, state, errVars, gumPending, recorders,
                 mediaRecorder, audioStream, ceilingTimers, timeoutRef,
                 winVars, httpVars, onCompleteCalls, wsVars>>

\* onerror of recorder i: the user agent inactivates the recorder and fires
\* error, then dataavailable and stop
RecorderError(i) ==
  /\ recorders[i].state = "recording"
  /\ recorders' = Inactivate(recorders, i)
  /\ error' = handleError("DeviceError", "recording", "RecorderDeviceError")
  /\ errorTimers' = TimersAfter(1)
  /\ UNCHANGED <<ownerVars, state, gumPending, mediaRecorder, audioStream,
                 audioChunks, ceilingTimers, timeoutRef, winVars, httpVars,
                 onCompleteCalls, wsVars>>

\* the recording-ceiling timeout fires: stopRecording()
CeilingTimeout(id) ==
  /\ id \in ceilingTimers
  /\ ceilingTimers' = ceilingTimers \ {id}
  /\ recorders' = stopRecordingRecs(recorders, mediaRecorder)
  /\ state' = stopRecordingState(state, mediaRecorder)
  /\ UNCHANGED <<ownerVars, errVars, gumPending, mediaRecorder, audioStream,
                 audioChunks, timeoutRef, winVars, httpVars, onCompleteCalls,
                 wsVars>>

\* ------------------------------------------------------------- processing
\* a processRecording without the check of responseBlob.size
ResponseFaultStatusOnly(outcome) == outcome \in {"rejected", "notok"}

\* a response that processRecording treats as a fault: fetch rejected,
\* !response.ok, or responseBlob.size === 0
ResponseFault(outcome) == outcome # "ok"

\* sendAudioStream: if (readyState === WebSocket.OPEN)
ChannelOpen == readyState = "OPEN"

\* processRecording of the "http" variant, up to the await of fetch
processRecordingHttp(chunks) ==
  /\ IF BlobEmpty(chunks)
     THEN /\ state' = [state EXCEPT !.isProcessing = FALSE]
          /\ error' = handleError("NoAudioData", "processing", "")
          /\ errorTimers' = TimersAfter(1)
          /\ UNCHANGED fetches
     ELSE /\ state' = [state EXCEPT !.isProcessing = TRUE]
          /\ error' = clearError(error)
          /\ fetches' = Append(fetches,
                               [body |-> chunks, status |-> "pending"])
          /\ UNCHANGED errorTimers
  /\ UNCHANGED <<player, plays, winVars, wsVars>>

\* processRecording of the "ws" variant
processRecordingWs(chunks) ==
  /\ IF BlobEmpty(chunks)
     THEN /\ state' = [state EXCEPT !.isProcessing = FALSE]
          /\ error' = handleError("NoAudioData", "processing", "")
          /\ errorTimers' = TimersAfter(1)
          /\ UNCHANGED <<sentMessages, wsErrors, procIntervals,
                         progressIntervalRef>>
     ELSE IF ~wsRef
     THEN /\ state' = [state EXCEPT !.isProcessing = FALSE]
          /\ error' = handleError("ChannelServiceNotReady", "processing", "")
          /\ errorTimers' = TimersAfter(1)
          /\ UNCHANGED <<sentMessages, wsErrors, procIntervals,
                         progressIntervalRef>>
     ELSE /\ state' = [state EXCEPT !.isProcessing = TRUE]
          /\ error' = clearError(error)
          /\ IF ChannelOpen
             THEN /\ sentMessages' = Append(sentMessages, chunks)
                  /\ UNCHANGED wsErrors
             ELSE /\ wsErrors' = wsErrors + 1
                  /\ UNCHANGED sentMessages
          /\ procIntervals' = Append(procIntervals,
                                     [progress |-> 0, on |-> TRUE])
          /\ progressIntervalRef' = Len(procIntervals) + 1
          /\ UNCHANGED errorTimers
  /\ UNCHANGED <<httpVars, windows, continuousModeTimeoutRef, wsRef,
                 readyState, wsPlayer, inbound,
                 lastMessage>>

\* the task queued when recorder i was inactivated: ondataavailable with the
\* data gathered last (size), then onstop: processRecording()
RecorderStopped(i, size) ==
  /\ recorders[i].stopQueued
  /\ recorders' = [recorders EXCEPT ![i].stopQueued = FALSE,
                                    ![i].stops = @ + 1]
  /\ audioChunks' = ondataavailable(audioChunks, i, size)
  /\ IF variant = "http"
     THEN processRecordingHttp(audioChunks')
     ELSE processRecordingWs(audioChunks')
  /\ UNCHANGED <<ownerVars, gumPending, mediaRecorder, audioStream,
                 ceilingTimers, timeoutRef, onCompleteCalls>>

\* processRecording of the "http" variant resumes after fetch k settled
\* (response.blob() included), up to the await of play()
FetchSettles(k, outcome) ==
  /\ fetches[k].status = "pending"
  /\ fetches' = [fetches EXCEPT ![k].status = outcome]
  /\ IF ResponseFault(outcome)
     THEN /\ state' = [state EXCEPT !.isProcessing = FALSE]
          /\ error' = handleError(outcome, "processing", "")
          /\ errorTimers' = TimersAfter(1)
          /\ UNCHANGED <<player, plays>>
     ELSE /\ player' = "loading"
          /\ plays' = [current |-> TRUE,
                       aborted |-> plays.aborted +
                                   (IF plays.current THEN 1 ELSE 0)]
          /\ state' = [state EXCEPT !.isProcessing = FALSE,
                                    !.isPlaying = TRUE]
          /\ UNCHANGED errVars
  /\ UNCHANGED <<ownerVars, recVars, winVars, onCompleteCalls, wsVars>>

\* ---------------------------------------------------------------- playback
\* play() resolved: playback runs, processRecording assigns onended
PlayResolves ==
  /\ plays.current /\ player = "loading"
  /\ player' = "playing"
  /\ plays' = [plays EXCEPT !.current = FALSE]
  /\ UNCHANGED <<ownerVars, state, errVars, recVars, winVars, fetches,
                 onCompleteCalls, wsVars>>

\* a play() promise rejected, by the audio sink or (superseded) because a
\* newer src replaced its media: handlePlaybackError, return
PlayRejects(superseded) ==
  /\ IF superseded THEN plays.aborted > 0 ELSE plays.current
  /\ player' = IF superseded THEN player ELSE "idle"
  /\ plays' = IF superseded THEN [plays EXCEPT !.aborted = @ - 1]
                            ELSE [plays EXCEPT !.current = FALSE]
  /\ error' = handleError("PlaybackFailed", "playback", "")
  /\ errorTimers' = TimersAfter(1)
  /\ UNCHANGED <<ownerVars, state, recVars, winVars, fetches,
                 onCompleteCalls, wsVars>>

\* onended: enter continuous mode, startContinuousMode()
PlaybackEnded ==
  /\ player = "playing"
  /\ player' = "idle"
  /\ state' = [state EXCEPT !.isPlaying = FALSE, !.continuousMode = TRUE,
                            !.timeoutProgress = ProgressStart]
  /\ windows' = Append(windows, [progress |-> ProgressStart,
                                 intervalOn |-> TRUE, timeoutOn |-> TRUE])
  /\ progressIntervalRef' = Len(windows) + 1
  /\ continuousModeTimeoutRef' = Len(windows) + 1
  /\ UNCHANGED <<ownerVars, errVars, recVars, fetches, plays,
                 onCompleteCalls, wsVars>>

\* ------------------------------------------------------ continuation window
\* updateProgress of window w
IntervalTick(w) ==
  /\ windows[w].intervalOn
  /\ windows[w].progress > 0 - MaxOverrun
  /\ LET p == windows[w].progress - 1
         ticked == [windows EXCEPT ![w].progress = p]
     IN IF p <= 0
        THEN /\ windows' = ClearInterval(ticked, progressIntervalRef)
             /\ state' = endContinuousModeState(
                           [state EXCEPT !.timeoutProgress = p])
             /\ onCompleteCalls' = onCompleteCalls + 1
             /\ isRecorderActive' = handleRecordingComplete
        ELSE /\ windows' = ticked
             /\ state' = [state EXCEPT !.timeoutProgress = p]
             /\ UNCHANGED <<onCompleteCalls, isRecorderActive>>
  /\ UNCHANGED <<engineVars, variant, isWebSocketReady, isActive, mounted, activations,
                 detections, errVars, recVars, progressIntervalRef,
                 continuousModeTimeoutRef, httpVars, wsVars>>

\* the window timeout of window w fires
WindowTimeout(w) ==
  /\ windows[w].timeoutOn
  /\ windows' = ClearInterval([windows EXCEPT ![w].timeoutOn = FALSE],
                              progressIntervalRef)
  /\ state' = endContinuousModeState(state)
  /\ onCompleteCalls' = onCompleteCalls + 1
  /\ isRecorderActive' = handleRecordingComplete
  /\ UNCHANGED <<engineVars, variant, isWebSocketReady, isActive, mounted, activations,
                 detections, errVars, recVars, progressIntervalRef,
                 continuousModeTimeoutRef, httpVars, wsVars>>

\* ------------------------------------------------------------ error surface
\* setTimeout(clearError, autoHideDuration) fires
ErrorTimerFires ==
  /\ errorTimers > 0
  /\ errorTimers' = errorTimers - 1
  /\ error' = clearError(error)
  /\ UNCHANGED <<ownerVars, state, recVars, winVars, httpVars,
                 onCompleteCalls, wsVars>>

\* the user closes the error banner: ErrorDisplay onClose = clearError
DismissError ==
  /\ mounted /\ error.type # "null"
  /\ error' = clearError(error)
  /\ UNCHANGED <<ownerVars, state, errorTimers, recVars, winVars, httpVars,
                 onCompleteCalls, wsVars>>

\* ------------------------------------------------ "ws": progress and channel
\* the processing-progress interval k ticks
ProcessingTick(k) ==
  /\ procIntervals[k].on
  /\ LET p == IF procIntervals[k].progress + 1 < ProcessingCap
              THEN procIntervals[k].progress + 1 ELSE ProcessingCap
     IN /\ procIntervals' = [procIntervals EXCEPT ![k].progress = p]
        /\ state' = [state EXCEPT !.timeoutProgress = p]
  /\ UNCHANGED <<ownerVars, errVars, recVars, winVars, httpVars,
                 onCompleteCalls, wsRef, readyState, sentMessages, wsPlayer,
                 wsErrors, inbound,
                 lastMessage>>

\* useWebSocket onOpen: onReady() -> setIsWebSocketReady(true); a recorder
\* the owner was holding back is rendered and initializes
SocketOpens ==
  /\ variant = "ws" /\ readyState = "CONNECTING"
  /\ readyState' = "OPEN"
  /\ isWebSocketReady' = TRUE
  /\ LET starts == mounted /\ ~isActive /\ Rendered(isRecorderActive, TRUE)
     IN /\ isActive' = (isActive \/ starts)
        /\ activations' = IF starts THEN activations + 1 ELSE activations
        /\ gumPending' = IF starts THEN gumPending + 1 ELSE gumPending
  /\ UNCHANGED <<engineVars, variant, isRecorderActive, mounted, detections, state,
                 errVars, recorders, mediaRecorder, audioStream, audioChunks,
                 ceilingTimers, timeoutRef, winVars, httpVars,
                 onCompleteCalls, procIntervals, wsRef, sentMessages,
                 wsPlayer, wsErrors, inbound,
                 lastMessage>>

\* useWebSocket onClose
SocketCloses ==
  /\ variant = "ws" /\ readyState \in {"CONNECTING", "OPEN"}
  /\ readyState' = "CLOSED"
  /\ UNCHANGED <<ownerVars, state, errVars, recVars, winVars, httpVars,
                 onCompleteCalls, procIntervals, wsRef, sentMessages,
                 wsPlayer, wsErrors, inbound,
                 lastMessage>>

\* shouldReconnect: a closed socket reconnects
SocketReconnects ==
  /\ variant = "ws" /\ readyState = "CLOSED"
  /\ readyState' = "CONNECTING"
  /\ UNCHANGED <<ownerVars, state, errVars, recVars, winVars, httpVars,
                 onCompleteCalls, procIntervals, wsRef, sentMessages,
                 wsPlayer, wsErrors, inbound,
                 lastMessage>>

\* a message of the given size arrives; lastMessage effect: the payload is
\* wrapped in a Blob and played
InboundMessage(size) ==
  /\ variant = "ws" /\ readyState = "OPEN"
  /\ inbound < MaxInbound
  /\ inbound' = inbound + 1
  /\ lastMessage' = size
  /\ wsPlayer' = [state |-> "loading", current |-> TRUE,
                  aborted |-> wsPlayer.aborted +
                              (IF wsPlayer.current THEN 1 ELSE 0)]
  /\ UNCHANGED <<ownerVars, state, errVars, recVars, winVars, httpVars,
                 onCompleteCalls, procIntervals, wsRef, readyState,
                 sentMessages, wsErrors>>

\* play() of the channel service resolved
WsPlayResolves ==
  /\ wsPlayer.current /\ wsPlayer.state = "loading"
  /\ wsPlayer' = [wsPlayer EXCEPT !.state = "playing", !.current = FALSE]
  /\ UNCHANGED <<ownerVars, state, errVars, recVars, winVars, httpVars,
                 onCompleteCalls, procIntervals, wsRef, readyState,
                 sentMessages, wsErrors, inbound,
                 lastMessage>>

\* play() of the channel service rejected: onError(error) -> console.error
WsPlayRejects(superseded) ==
  /\ IF superseded THEN wsPlayer.aborted > 0 ELSE wsPlayer.current
  /\ wsPlayer' = IF superseded
                 THEN [wsPlayer EXCEPT !.aborted = @ - 1]
                 ELSE [wsPlayer EXCEPT !.state = "idle", !.current = FALSE]
  /\ wsErrors' = wsErrors + 1
  /\ UNCHANGED <<ownerVars, state, errVars, recVars, winVars, httpVars,
                 onCompleteCalls, procIntervals, wsRef, readyState,
                 sentMessages, inbound,
                 lastMessage>>

\* playback of the channel service ran to its end (no handler is attached)
WsPlaybackEnded ==
  /\ wsPlayer.state = "playing"
  /\ wsPlayer' = [wsPlayer EXCEPT !.state = "idle"]
  /\ UNCHANGED <<ownerVars, state, errVars, recVars, winVars, httpVars,
                 onCompleteCalls, procIntervals, wsRef, readyState,
                 sentMessages, wsErrors, inbound,
                 lastMessage>>

\* ------------------------------------------------------------ specification
Outcomes == {"rejected", "notok", "empty", "ok"}
ChunkSizes == 0..MaxChunkSize

\* ------------------------------------------------------ wake-word engine
\* The usePorcupine hook is a dependency of the repository.  Its init() loads
\* an engine instance asynchronously and may fail; called while the hook
\* holds an instance it either leaves that instance in place or loads another
\* one.  release() unloads the instance the hook holds; stop() and start()
\* unsubscribe and subscribe it.
AccessKeys == {"", "k1", "k2"}

\* the access-key input: setAccessKey(e.target.value)
SetAccessKey(k) ==
  /\ k # accessKey
  /\ accessKey' = k
  /\ UNCHANGED <<isInitializing, isLoaded, isListening, effectDeps,
                 instances, initsPending, initCalls, sessionVars>>

\* the init effect runs because accessKey or isLoaded changed: first the
\* cleanup of the closure installed last (if (isLoaded) { stop(); release() }),
\* then the body.  "ws": once only (isInitializing), openVoiceListening stops
\* and releases a loaded instance and then calls init.  "http": init is
\* called whenever accessKey is set
InitEffect ==
  /\ effectDeps # [accessKey |-> accessKey, isLoaded |-> isLoaded]
  /\ effectDeps' = [accessKey |-> accessKey, isLoaded |-> isLoaded]
  /\ LET cleans == effectDeps.isLoaded
         opens == accessKey # "" /\ (variant = "ws" => ~isInitializing)
         stops == cleans \/ (variant = "ws" /\ opens /\ isLoaded)
         releases == stops /\ isLoaded
     IN /\ opens => initCalls < MaxInitCalls
        /\ isInitializing' = (isInitializing \/ (variant = "ws" /\ opens))
        /\ isLoaded' = (isLoaded /\ ~releases)
        /\ instances' = IF releases THEN instances - 1 ELSE instances
        /\ isListening' = (isListening /\ ~stops)
        /\ initsPending' = IF opens THEN initsPending + 1 ELSE initsPending
        /\ initCalls' = IF opens THEN initCalls + 1 ELSE initCalls
  /\ UNCHANGED <<accessKey, sessionVars>>

\* the Initialize button: await init(accessKey, ...); await start()
ClickInitialize ==
  /\ initCalls < MaxInitCalls
  /\ initCalls' = initCalls + 1
  /\ initsPending' = initsPending + 1
  /\ UNCHANGED <<accessKey, isInitializing, isLoaded, isListening,
                 effectDeps, instances, sessionVars>>

\* an init() promise settles and the start() that follows it has run
InitResolves(outcome) ==
  /\ initsPending > 0
  /\ initsPending' = initsPending - 1
  /\ CASE outcome = "created" ->
            /\ instances < MaxInstances
            /\ instances' = instances + 1
            /\ isLoaded' = TRUE
       [] outcome = "ignored" ->
            /\ isLoaded
            /\ UNCHANGED <<instances, isLoaded>>
       [] outcome = "fails" ->
            UNCHANGED <<instances, isLoaded>>
  /\ isListening' = (isListening \/ isLoaded')
  /\ UNCHANGED <<accessKey, isInitializing, effectDeps, initCalls,
                 sessionVars>>

\* the Start and Stop buttons: start(), stop()
ClickStart ==
  /\ isLoaded /\ ~isListening
  /\ isListening' = TRUE
  /\ UNCHANGED <<accessKey, isInitializing, isLoaded, effectDeps, instances,
                 initsPending, initCalls, sessionVars>>

ClickStop ==
  /\ isListening
  /\ isListening' = FALSE
  /\ UNCHANGED <<accessKey, isInitializing, isLoaded, effectDeps, instances,
                 initsPending, initCalls, sessionVars>>

\* the capture side of the recorder
CaptureSteps ==
  \/ Deactivate
  \/ Unmount
  \/ \E t \in BOOLEAN : GetUserMediaResolves(t)
  \/ GetUserMediaRejects
  \/ \E i \in DOMAIN recorders, z \in 1..MaxChunkSize : ChunkDelivered(i, z)
  \/ \E i \in DOMAIN recorders : RecorderError(i)
  \/ \E id \in ceilingTimers : CeilingTimeout(id)
  \/ \E i \in DOMAIN recorders, z \in ChunkSizes : RecorderStopped(i, z)

\* the owner and the capture side of the recorder
Capture == WakeWordDetected \/ CaptureSteps

ErrorSurface ==
  \/ ErrorTimerFires
  \/ DismissError

\* "http": the exchange and the playback of the response
Exchange ==
  \/ \E k \in DOMAIN fetches, o \in Outcomes : FetchSettles(k, o)
  \/ PlayResolves
  \/ \E a \in BOOLEAN : PlayRejects(a)

\* "http": the continuation window
Continuation ==
  \/ PlaybackEnded
  \/ \E w \in DOMAIN windows : IntervalTick(w)
  \/ \E w \in DOMAIN windows : WindowTimeout(w)

\* "ws": the socket of the channel service
Socket ==
  \/ SocketOpens
  \/ SocketCloses
  \/ SocketReconnects

\* "ws": the inbound side of the channel service and the progress display
Channel ==
  \/ \E k \in DOMAIN procIntervals : ProcessingTick(k)
  \/ \E z \in ChunkSizes : InboundMessage(z)
  \/ WsPlayResolves
  \/ \E a \in BOOLEAN : WsPlayRejects(a)
  \/ WsPlaybackEnded

Next == Capture \/ ErrorSurface \/ Exchange \/ Continuation \/ Socket \/ Channel

Spec == Init /\ [][Next]_vars

\* the "http" recorder alone
InitHttp == Init /\ variant = "http"
NextHttp == Capture \/ ErrorSurface \/ Exchange \/ Continuation
SpecHttp == InitHttp /\ [][NextHttp]_vars

\* capture up to the hand-over to the exchange, both variants
NextCapture == Capture \/ ErrorSurface \/ Socket
SpecCapture == Init /\ [][NextCapture]_vars

\* "http": capture, exchange and start of playback
NextExchange == Capture \/ ErrorSurface \/ Exchange
SpecExchange == InitHttp /\ [][NextExchange]_vars

\* Timers that are armed fire, promises settle and queued device events are
\* delivered; the owner and the user are free to do nothing.
Fairness ==
  /\ WF_vars((\E t \in BOOLEAN : GetUserMediaResolves(t)) \/ GetUserMediaRejects)
  /\ WF_vars(\E id \in ceilingTimers : CeilingTimeout(id))
  /\ WF_vars(\E i \in DOMAIN recorders, z \in ChunkSizes : RecorderStopped(i, z))
  /\ WF_vars(\E k \in DOMAIN fetches, o \in Outcomes : FetchSettles(k, o))
  /\ WF_vars(PlayResolves \/ \E a \in BOOLEAN : PlayRejects(a))
  /\ WF_vars(PlaybackEnded)
  /\ WF_vars(\E w \in DOMAIN windows : IntervalTick(w))
  /\ WF_vars(\E w \in DOMAIN windows : WindowTimeout(w))
  /\ WF_vars(ErrorTimerFires)
FairSpecHttp == SpecHttp /\ Fairness

\* the owner's handling of the wake-word engine, both owners
NextEngine ==
  \/ \E k \in AccessKeys : SetAccessKey(k)
  \/ InitEffect
  \/ ClickInitialize
  \/ \E o \in {"created", "ignored", "fails"} : InitResolves(o)
  \/ ClickStart
  \/ ClickStop
SpecEngine == Init /\ [][NextEngine]_vars

\* "http": capture with an owner that switches the recorder off and on again
NextReactivation == WakeWord(MaxReactivations) \/ CaptureSteps
SpecReactivation == InitHttp /\ [][NextReactivation]_vars

\* "http": the fault-free path from recording to the continuation window
\* with an owner that switches the recorder off and on again
NextHttpReactivation ==
  \/ WakeWord(MaxReactivations)
  \/ Deactivate
  \/ GetUserMediaResolves(FALSE)
  \/ \E id \in ceilingTimers : CeilingTimeout(id)
  \/ \E i \in DOMAIN recorders : RecorderStopped(i, MaxChunkSize)
  \/ \E k \in DOMAIN fetches : FetchSettles(k, "ok")
  \/ PlayResolves
  \/ PlaybackEnded
  \/ Continuation
SpecHttpReactivation == InitHttp /\ [][NextHttpReactivation]_vars

\* both variants: capture and the socket with an owner that switches the
\* recorder off and on again
NextSessions == WakeWord(MaxReactivations) \/ CaptureSteps \/ Socket
SpecSessions == Init /\ [][NextSessions]_vars

\* the "ws" recorder with its channel service; timers that are armed fire,
\* promises settle, queued device events and the response are delivered
InitWs == Init /\ variant = "ws"
NextWs == Capture \/ ErrorSurface \/ Socket \/ Channel
SpecWs == InitWs /\ [][NextWs]_vars
FairnessWs ==
  /\ WF_vars((\E t \in BOOLEAN : GetUserMediaResolves(t)) \/ GetUserMediaRejects)
  /\ WF_vars(\E id \in ceilingTimers : CeilingTimeout(id))
  /\ WF_vars(\E i \in DOMAIN recorders, z \in ChunkSizes : RecorderStopped(i, z))
  /\ WF_vars(\E k \in DOMAIN procIntervals : ProcessingTick(k))
  /\ WF_vars(\E z \in ChunkSizes : InboundMessage(z))
  /\ WF_vars(WsPlayResolves \/ \E a \in BOOLEAN : WsPlayRejects(a))
  /\ WF_vars(WsPlaybackEnded)
  /\ WF_vars(ErrorTimerFires)
FairSpecWs == SpecWs /\ FairnessWs

\* capture, exchange and start of playback with their timers, promises and
\* device events delivered
FairnessExchange ==
  /\ WF_vars((\E t \in BOOLEAN : GetUserMediaResolves(t)) \/ GetUserMediaRejects)
  /\ WF_vars(\E id \in ceilingTimers : CeilingTimeout(id))
  /\ WF_vars(\E i \in DOMAIN recorders, z \in ChunkSizes : RecorderStopped(i, z))
  /\ WF_vars(\E k \in DOMAIN fetches, o \in Outcomes : FetchSettles(k, o))
  /\ WF_vars(PlayResolves \/ \E a \in BOOLEAN : PlayRejects(a))
  /\ WF_vars(ErrorTimerFires)
FairSpecExchange == SpecExchange /\ FairnessExchange

\* capture with its timers, promises and device events delivered
FairnessCapture ==
  /\ WF_vars((\E t \in BOOLEAN : GetUserMediaResolves(t)) \/ GetUserMediaRejects)
  /\ WF_vars(\E id \in ceilingTimers : CeilingTimeout(id))
  /\ WF_vars(\E i \in DOMAIN recorders, z \in ChunkSizes : RecorderStopped(i, z))
FairSpecCapture == SpecCapture /\ FairnessCapture

\* ------------------------------------------------------------------ phases
PhaseFlags ==
  (IF state.isRecording THEN 1 ELSE 0) + (IF state.isProcessing THEN 1 ELSE 0)
  + (IF state.isPlaying THEN 1 ELSE 0)

\* the owner keeps the recorder mounted and active
Live == mounted /\ isActive

\* a session is under way: one of the phases, or the continuation window
InSession ==
  state.isRecording \/ state.isProcessing \/ state.isPlaying
  \/ state.continuousMode

\* no phase is shown any more
NoPhase == ~InSession

\* Ended: no phase shown and completion reported to the owner
Ended == NoPhase /\ onCompleteCalls > 0

\* a timer of some continuation window is pending
WindowTimerPending ==
  \E w \in DOMAIN windows : windows[w].intervalOn \/ windows[w].timeoutOn

\* a microphone track is live
TrackLive == \E i \in DOMAIN recorders : recorders[i].live

\* the response is being played or about to be
PlaybackActive == player # "idle" \/ wsPlayer.state # "idle"

\* any timer of the recorder or of its error surface is pending
TimerPending ==
  \/ ceilingTimers # {}
  \/ WindowTimerPending
  \/ \E k \in DOMAIN procIntervals : procIntervals[k].on
  \/ errorTimers > 0

\* the step is the stop task of some recorder (ondataavailable, then onstop)
StopStep ==
  \E i \in DOMAIN recorders :
    recorders[i].stopQueued /\ ~recorders'[i].stopQueued

\* the step settles some fetch with a fault
FaultStep ==
  \E k \in DOMAIN fetches :
    /\ fetches[k].status = "pending"
    /\ fetches'[k].status \in {"rejected", "notok", "empty"}

\* the step is a rejection of the current play() promise by the audio sink
PlayFailStep == plays.current /\ ~plays'.current /\ player' = "idle"

\* the step is the end of a playback, in the recorder or the channel service
PlaybackEndStep ==
  \/ player = "playing" /\ player' = "idle"
  \/ wsPlayer.state = "playing" /\ wsPlayer'.state = "idle"

\* ------------------------------------------------------------------ claims

\* C1: at most one of isRecording, isProcessing, isPlaying is true in every
\* reachable state (stated for the states in which the owner keeps the
\* recorder mounted and active).
C1_MutualExclusion == Live => PhaseFlags <= 1

\* C2: from every state in which a session is under way (Recording,
\* Processing, Playing, ContinuationWindow) the session eventually reaches
\* Ended: no phase flag set and completion reported to the owner (unless the
\* owner disposes of the recorder first).
C2_ReachesEnded == (Live /\ InSession) ~> (Ended \/ ~Live)

\* C3: when a recording stops with zero captured bytes the exchange is not
\* invoked: the stop task issues no fetch and hands nothing to the channel.
C3_EmptyNeverSent ==
  [][(StopStep /\ BlobSize(audioChunks') = 0)
       => (fetches' = fetches /\ sentMessages' = sentMessages)]_vars

\* C3 witness: a recording has stopped empty and nothing was sent.
C3_Witness ==
  /\ error.message = <<"NoAudioData">>
  /\ fetches = <<>> /\ sentMessages = <<>>
  /\ \E i \in DOMAIN recorders :
       recorders[i].state = "inactive" /\ ~recorders[i].stopQueued

\* C4: a recording that was stopped (isRecording already false) with zero
\* bytes buffered ends the session without entering Processing, and the
\* error surfaced is of the Recording category.
C4_EmptyIsRecordingError ==
  [][(Live /\ ~state.isRecording /\ StopStep /\ BlobSize(audioChunks') = 0)
       => (error'.type = "recording" /\ ~state'.isProcessing)]_vars

\* C5: a continuation window that runs out invokes onComplete exactly once:
\* there are never more completions than windows (while the recorder is
\* mounted and active and shows no phase).
C5_CompleteOncePerWindow ==
  (Live /\ PhaseFlags = 0) => onCompleteCalls <= Len(windows)

\* C6: after the recorder was disposed (deactivated or unmounted) no
\* microphone track is live, no playback is active and no timer is pending.
C6_DisposedHoldsNothing ==
  (~isActive \/ ~mounted) => (~TrackLive /\ ~PlaybackActive /\ ~TimerPending)

C8_PlayFailEnds ==
  [][(Live /\ PhaseFlags <= 1 /\ PlayFailStep)
       => /\ error'.type = "playback"
          /\ ~state'.isPlaying
          /\ ~state'.continuousMode]_vars

\* C9: when playback completes the session enters the continuation window
\* only where continuation is enabled (the "http" deployment); where it is
\* disabled (the "ws" deployment) the end of the playback that answers the
\* utterance sent starts no countdown and leaves no phase set.
C9_ContinueOnlyIfEnabled ==
  [][(Live /\ PhaseFlags <= 1 /\ PlaybackEndStep)
       => IF variant = "http"
          THEN state'.continuousMode
          ELSE (state.isProcessing /\ sentMessages # <<>>)
               => (windows' = windows /\ ~InSession')]_vars

\* C10: a new utterance during the continuation window brings the session
\* back to Recording and cancels the countdown of that window.
C10_UtteranceRestarts ==
  [][(Live /\ PhaseFlags = 0 /\ state.continuousMode
        /\ detections' > detections)
       => (state'.isRecording /\ ~WindowTimerPending')]_vars

\* the recorder the component refers to is recording
CurrentRecording ==
  mediaRecorder # 0 /\ recorders[mediaRecorder].state = "recording"

\* the step is the recording-ceiling timeout of a recorder still in use
CeilingStep ==
  /\ mounted' = mounted /\ isActive' = isActive
  /\ \E id \in ceilingTimers : id \notin ceilingTimers'

\* the step is a stop requested by the owner (isActive switched off)
ManualStopStep == mounted' /\ isActive /\ ~isActive'

\* what stopRecording leaves behind: the recorder in use is inactive with its
\* stop task queued if it was recording, isRecording is false, and the
\* buffered chunks are untouched
StoppedAlike ==
  /\ audioChunks' = audioChunks
  /\ mediaRecorder' = mediaRecorder
  /\ mediaRecorder # 0 =>
       /\ ~state'.isRecording
       /\ recorders'[mediaRecorder].state = "inactive"
       /\ recorders[mediaRecorder].state = "recording"
            => recorders'[mediaRecorder].stopQueued

\* the stop task hands exactly the buffered utterance to the exchange
HandsOverBuffer ==
  IF variant = "http"
  THEN fetches' = Append(fetches, [body |-> audioChunks', status |-> "pending"])
  ELSE (wsRef /\ ChannelOpen) => sentMessages' = Append(sentMessages, audioChunks')

ExchangeStartStep ==
  Len(fetches') > Len(fetches) \/ Len(sentMessages') > Len(sentMessages)

\* the step hands a response to the audio player of the recorder
PlaybackStartStep == player # "loading" /\ player' = "loading"

\* the step starts a recording
RecordingStartStep == ~state.isRecording /\ state'.isRecording

\* C12: within a session the phases follow one another: when the exchange
\* starts the session has left Recording and is in Processing, when playback
\* starts a response has been returned and the session has left Processing
\* for Playing, and the steps of the success path surface no error.
C12_PhasesInOrder ==
  [][Live =>
       /\ ExchangeStartStep
            => (~state'.isRecording /\ state'.isProcessing /\ ~state'.isPlaying)
       /\ PlaybackStartStep
            => /\ \E k \in DOMAIN fetches' : fetches'[k].status = "ok"
               /\ ~state'.isProcessing /\ state'.isPlaying
       /\ (RecordingStartStep \/ ExchangeStartStep \/ PlaybackStartStep
            \/ PlaybackEndStep)
            => error'.type = "null"]_vars

\* the step is a stop task whose processRecording calls sendAudioStream
SendAttemptStep ==
  variant = "ws" /\ wsRef /\ StopStep /\ ~BlobEmpty(audioChunks')

\* C13: a send attempted while the channel is not open surfaces a Processing
\* error in the recorder and ends the session (isProcessing false); the
\* recorder does not go on as after a successful send.
C13_ClosedChannelSurfaces ==
  [][(Live /\ ~state.isRecording /\ SendAttemptStep /\ ~ChannelOpen)
       => /\ error'.type = "processing"
          /\ ~state'.isProcessing
          /\ procIntervals' = procIntervals]_vars

\* C14: sendAudioStream is only invoked, and a recording only runs, while
\* the socket is open, also after the socket closed following an earlier
\* open.
C14_SendsOnlyWhenOpen ==
  [][(Live /\ variant = "ws") =>
       /\ SendAttemptStep => ChannelOpen
       /\ RecordingStartStep => ChannelOpen]_vars

\* VoiceAssistant passes the channel service as websocketService={wsRef.current}
\* while the recorder reads the prop wsRef: in the composed system the
\* recorder's wsRef is never set
ComposedWiring == ~wsRef

\* C15: in the composed system, with the channel open, the stop task of a
\* non-empty recording hands the utterance to sendMessage and raises no
\* Processing error.
C15_ComposedSends ==
  [][(Live /\ variant = "ws" /\ ComposedWiring /\ isWebSocketReady
        /\ ChannelOpen /\ ~state.isRecording
        /\ StopStep /\ ~BlobEmpty(audioChunks'))
       => /\ sentMessages' = Append(sentMessages, audioChunks')
          /\ error'.type # "processing"]_vars

\* the step receives a response of zero bytes: a fetch settles with an empty
\* blob, or an empty message arrives on the channel
ZeroByteResponseStep ==
  \/ \E k \in DOMAIN fetches :
       fetches[k].status = "pending" /\ fetches'[k].status = "empty"
  \/ inbound' > inbound /\ lastMessage' = 0

\* C16: a response of zero bytes is a fault in both variants: a Processing
\* error is surfaced and the payload does not reach an audio player.
C16_EmptyResponseIsFault ==
  [][(Live /\ ZeroByteResponseStep)
       => /\ error'.type = "processing"
          /\ player' = player
          /\ wsPlayer' = wsPlayer]_vars

\* recorders whose onstop handler has run
StopsRun == {i \in DOMAIN recorders : recorders[i].stops > 0}

\* C17: the exchange is attempted at most once per utterance: the onstop
\* handler of a recorder runs at most once, and there are never more fetches
\* and channel sends than stop handlers that ran (no retry after a failure).
C17_SingleAttempt ==
  /\ \A i \in DOMAIN recorders : recorders[i].stops <= 1
  /\ Len(fetches) + Len(sentMessages) <= Cardinality(StopsRun)

\* C17 witness: an exchange has failed and its utterance was sent once.
C17_Witness ==
  /\ Len(fetches) = 1 /\ fetches[1].status \in {"rejected", "notok", "empty"}
  /\ Cardinality(StopsRun) = 1
  /\ errorTimers = 0 /\ ceilingTimers = {}

\* the category under which the recorder reports a fault with this message
CategoryOf(message) ==
  IF Len(message) = 3 THEN "recording"
  ELSE IF message = <<"PlaybackFailed">> THEN "playback"
  ELSE "processing"

\* the step reports a fault to the error surface
ReportStep == errorTimers' > errorTimers

\* C18: the error surface holds at most one record, and it is always that
\* of the fault reported last: empty (type and message both null) or a
\* category and a message that belong to one and the same fault; a step
\* that reports a fault leaves exactly that fault on display.
C18_OneRecordNewestWins ==
  /\ [](/\ (error.type = "null") <=> (error.message = <<>>)
        /\ error.type # "null" => CategoryOf(error.message) = error.type)
  /\ [][ReportStep => error'.type # "null"]_vars
  /\ [][FaultStep
         => \E k \in DOMAIN fetches :
              /\ fetches[k].status = "pending"
              /\ error' = [type |-> "processing",
                           message |-> <<fetches'[k].status>>]]_vars
  /\ [][PlayFailStep
         => error' = [type |-> "playback", message |-> <<"PlaybackFailed">>]]_vars

\* C18 witness: a second fault was reported while the timer of the first is
\* still pending, and the record on display is the second one.
C18_Witness ==
  /\ errorTimers = 2
  /\ error = [type |-> "processing", message |-> <<"NoAudioData">>]

\* the step is the expiry of an auto-hide timer
ErrorTimerStep == errorTimers' < errorTimers

\* C19: the expiry timer armed by an earlier fault does not clear a newer
\* error: timers of one duration expire in the order they were armed, so as
\* long as a second timer is pending an expiry leaves the record on display
\* as it is.
C19_OldTimerSparesNewError ==
  [][(mounted /\ ErrorTimerStep /\ errorTimers >= 2 /\ error.type # "null")
       => error' = error]_vars

\* C20: every active error record has an expiry timer pending and is
\* eventually cleared without user action; a cleared record has type and
\* message both null.
C20_ErrorsExpire ==
  /\ [](error.type # "null" => errorTimers > 0)
  /\ (error.type # "null") ~> (error = NoError)

\* C20 witness: a fault of the exchange was reported and every expiry timer
\* has fired: the record is empty again.
C20_Witness ==
  /\ Live /\ error = NoError /\ errorTimers = 0
  /\ \E k \in DOMAIN fetches : fetches[k].status = "notok"

\* C21: stopping a recording disarms its ceiling timer: after a step in
\* which stopRecording stopped the recorder in use, the timer armed when that
\* recorder was started is no longer pending.
C21_StopDisarmsCeiling ==
  [][((CeilingStep \/ ManualStopStep) /\ CurrentRecording)
       => mediaRecorder \notin ceilingTimers']_vars

\* the step is the stop task of recorder i
StopStepOf(i) == recorders[i].stopQueued /\ ~recorders'[i].stopQueued

\* C22: starting a recording empties the chunk buffer, the buffer only grows
\* at its end until the next start, and the utterance assembled when the
\* recorder started last stops holds no chunk of an earlier recorder.
C22_UtteranceIsOwnChunks ==
  /\ [][RecordingStartStep => audioChunks' = <<>>]_vars
  /\ [][(audioChunks' # audioChunks /\ audioChunks' # <<>>)
         => (/\ Len(audioChunks') = Len(audioChunks) + 1
             /\ SubSeq(audioChunks', 1, Len(audioChunks)) = audioChunks)]_vars
  /\ [][\A i \in DOMAIN recorders :
          (StopStepOf(i) /\ i = mediaRecorder) =>
            \A k \in DOMAIN audioChunks' : audioChunks'[k].from = i]_vars

\* what cleanup() establishes: the tracks of the stream in audioStream are
\* stopped, the timers the three refs point to are cleared, no error is shown
Cleaned ==
  /\ audioStream # 0 => /\ ~recorders[audioStream].live
                        /\ recorders[audioStream].state = "inactive"
  /\ timeoutRef \notin ceilingTimers
  /\ (variant = "http" /\ progressIntervalRef # 0)
       => ~windows[progressIntervalRef].intervalOn
  /\ (variant = "http" /\ continuousModeTimeoutRef # 0)
       => ~windows[continuousModeTimeoutRef].timeoutOn
  /\ (variant = "ws" /\ progressIntervalRef # 0)
       => ~procIntervals[progressIntervalRef].on
  /\ error = NoError

\* the step runs cleanup(): the unmount effect, or the isActive effect with
\* isActive false
UnmountStep == mounted /\ ~mounted'
CleanupStep == UnmountStep \/ (mounted /\ isActive /\ ~isActive')

\* C23: cleanup is idempotent and safe from any state: whatever the state it
\* runs in, it leaves the resources released and reports no error; run again
\* right after a cleanup it changes nothing; run before any stream exists it
\* touches no recorder.
C23_CleanupIdempotent ==
  /\ [][CleanupStep => (Cleaned' /\ errorTimers' = errorTimers)]_vars
  /\ [][(UnmountStep /\ Cleaned)
         => UNCHANGED <<recorders, ceilingTimers, windows, procIntervals,
                        error, state, audioChunks>>]_vars
  /\ [][(CleanupStep /\ audioStream = 0)
         => (recorders' = recorders /\ error' = NoError)]_vars

\* C23 witness: the recorder was switched off (stopRecording, cleanup) after
\* a stream had been acquired and was unmounted afterwards (cleanup again).
C23_Witness ==
  /\ ~mounted /\ ~isActive /\ activations > 0
  /\ audioStream # 0
  /\ Cleaned

\* the step invokes init() of the wake-word engine
InitInvokedStep == initCalls' > initCalls

\* C24: whenever init is invoked, no engine instance is loaded any more: an
\* instance loaded before has been stopped and released by then.
C24_InitReleasesFirst ==
  [][InitInvokedStep => (instances' = 0 /\ ~isLoaded')]_vars

\* the step is a wake-word detection
DetectionStep == detections' > detections

\* C25: only a new detection begins a session: a detection while the
\* recorder is active starts no recording and requests no microphone stream;
\* a session begins only in a detection step, or when the channel becomes
\* ready for the first session of a detection already made; and the owner's
\* session flag rises only in a detection step, so a detection value that
\* has not changed restarts nothing.
C25_OnlyNewDetectionBegins ==
  /\ [][(DetectionStep /\ isActive)
         => UNCHANGED <<activations, gumPending, recorders, mediaRecorder,
                        audioStream, state>>]_vars
  /\ [][activations' > activations
         => \/ DetectionStep
            \/ activations = 0 /\ isRecorderActive /\ ~isWebSocketReady]_vars
  /\ [][(~isRecorderActive /\ isRecorderActive') => DetectionStep]_vars

\* C25 witness: a second detection arrived while the session of the first
\* was recording, and there is still one recorder and no pending request.
C25_Witness ==
  /\ variant = "http" /\ isActive
  /\ detections = 2 /\ activations = 1
  /\ state.isRecording
  /\ Len(recorders) = 1 /\ gumPending = 0

\* a session has ended by a fault: the recorder is still mounted and active,
\* no phase is shown, nothing of the session is pending and completion was
\* never reported to the owner
FaultEnded ==
  /\ Live /\ NoPhase
  /\ recorders # <<>> /\ gumPending = 0
  /\ \A i \in DOMAIN recorders :
       recorders[i].state = "inactive" /\ ~recorders[i].stopQueued
  /\ \A k \in DOMAIN fetches : fetches[k].status # "pending"
  /\ ~WindowTimerPending
  /\ onCompleteCalls = 0

\* C26: after a session has ended by a fault, the next wake-word detection
\* starts a fresh session: the microphone is requested again.
C26_NextDetectionStartsFresh ==
  [][(FaultEnded /\ DetectionStep) => gumPending' > gumPending]_vars

\* "ws": an utterance was sent and the session shows Processing
SentAndProcessing ==
  variant = "ws" /\ Live /\ state.isProcessing /\ sentMessages # <<>>

\* "ws": no processing-progress interval is running
ProcIntervalsCleared == \A k \in DOMAIN procIntervals : ~procIntervals[k].on

\* C27: "ws": after a successful send, once a response has arrived,
\* isProcessing eventually becomes false and the progress interval is
\* cleared (unless the owner disposes of the recorder first).
C27_ProcessingEnds ==
  (SentAndProcessing /\ lastMessage >= 0)
    ~> ((~state.isProcessing /\ ProcIntervalsCleared) \/ ~Live)

\* the record onerror of a recorder leaves on the error surface
DeviceErrorRecord == handleError("DeviceError", "recording", "RecorderDeviceError")

\* the step is onerror of a recorder that was recording
DeviceErrorStep ==
  /\ \E i \in DOMAIN recorders :
       recorders[i].state = "recording" /\ recorders'[i].state = "inactive"
  /\ error' = DeviceErrorRecord
  /\ errorTimers' = errorTimers + 1

\* C28: a recorder device error during Recording ends the session at once
\* with the Recording error surfaced (no phase is shown after the error
\* step), and the stop handling that follows the device error neither clears
\* that error, nor enters Processing, nor attempts an exchange.
C28_DeviceErrorEnds ==
  /\ [][(Live /\ DeviceErrorStep)
         => (NoPhase' /\ error'.type = "recording")]_vars
  /\ [][(Live /\ StopStep /\ state.isRecording /\ error = DeviceErrorRecord)
         => /\ error' = error
            /\ ~state'.isProcessing
            /\ ~ExchangeStartStep]_vars

\* the record an initializeRecording that failed leaves on the error surface
AcquisitionFailedRecord ==
  handleError("DeviceUnavailable", "recording", "InitRecordingFailed")

\* the step settles a getUserMedia request without a recorder being created
AcquisitionFailedStep ==
  gumPending' < gumPending /\ Len(recorders') = Len(recorders)

\* C29: when microphone acquisition fails a Recording error is surfaced,
\* the phase flags stay as they were (isRecording stays false), no ceiling
\* timer is armed and no exchange is attempted; as long as no acquisition has
\* succeeded nothing records, no ceiling timer is pending and nothing was
\* sent.
C29_AcquisitionFailure ==
  /\ [][AcquisitionFailedStep
         => /\ error' = AcquisitionFailedRecord
            /\ state' = state
            /\ ceilingTimers' = ceilingTimers /\ timeoutRef' = timeoutRef
            /\ mediaRecorder' = mediaRecorder
            /\ ~ExchangeStartStep]_vars
  /\ [](recorders = <<>>
         => /\ ~state.isRecording /\ ceilingTimers = {}
            /\ fetches = <<>> /\ sentMessages = <<>>)

\* C29 witness: the only acquisition of an active recorder failed and the
\* Recording error is on display.
C29_Witness ==
  /\ Live /\ activations > 0 /\ gumPending = 0
  /\ recorders = <<>>
  /\ error = AcquisitionFailedRecord
  /\ ~state.isRecording

\* C30: during a continuation window the exposed progress starts at 100,
\* never increases from one update to the next, stays within 0..100, and is
\* 0 when the window ends.
C30_ProgressDecreases ==
  /\ [][(~state.continuousMode /\ state'.continuousMode)
         => state'.timeoutProgress = ProgressStart]_vars
  /\ [][(state.continuousMode /\ state'.continuousMode)
         => state'.timeoutProgress <= state.timeoutProgress]_vars
  /\ [][(state.continuousMode /\ ~state'.continuousMode)
         => state'.timeoutProgress = 0]_vars
  /\ [](state.timeoutProgress \in 0..ProgressStart)

\* the microphone streams whose tracks are live
LiveStreams == {i \in DOMAIN recorders : recorders[i].live}

\* C31: at most one microphone stream is held at any time.
C31_OneStream == Cardinality(LiveStreams) <= 1

\* "ws": the step is the lastMessage effect handing a payload to the player
InboundPlayStep == inbound' > inbound /\ wsPlayer'.state = "loading"

\* C32: playback starts only for a response to an utterance that was sent,
\* and never while another playback is loading or playing: an inbound
\* message is played only if more utterances were sent than responses have
\* arrived and the channel's player is idle, and a fetched response is handed
\* to the recorder's player only when that player is idle.
C32_PlaysOnlyAnswers ==
  /\ [][InboundPlayStep
         => (Len(sentMessages) > inbound /\ wsPlayer.state = "idle")]_vars
  /\ [][PlaybackStartStep => player = "idle"]_vars

\* the step ends the session of a live recorder by countdown expiry:
\* endContinuousMode reports completion to the owner
ExpiryEndStep == Live /\ onCompleteCalls' > onCompleteCalls

\* the step ends the session of a live recorder by a fault: an error is
\* reported and no phase is shown afterwards
FaultEndStep == Live /\ InSession /\ NoPhase' /\ ReportStep

\* no timer armed by a session is pending and no microphone track is live
Released == ceilingTimers = {} /\ ~WindowTimerPending /\ ~TrackLive

\* C33: when a session ends by countdown expiry or by a fault, the
\* recording ceiling, the continuation timeout and the progress interval are
\* cleared and the microphone stream is released by that very step.
C33_EndReleases == [][(ExpiryEndStep \/ FaultEndStep) => Released']_vars

\* the step starts a continuation countdown
CountdownStartStep == Len(windows') > Len(windows)

\* the step invokes onComplete
CompletionStep == onCompleteCalls' > onCompleteCalls

\* C34: once the recorder has been deactivated or unmounted, the abandoned
\* session takes no further pipeline step: late stop, response and ended
\* callbacks issue no exchange, start no playback, start no countdown and do
\* not invoke onComplete.
C34_AbandonedIsSilent ==
  [][(~Live /\ ~Live')
       => ~(ExchangeStartStep \/ PlaybackStartStep \/ CountdownStartStep
             \/ CompletionStep)]_vars

\* the step resolves a microphone request of a recorder that is no longer
\* active or no longer mounted
LateAcquisitionStep == ~Live /\ gumPending' < gumPending /\ Len(recorders') > Len(recorders)

\* C35: when the recorder was deactivated while getUserMedia was pending,
\* the resolution of the request starts no recording and leaves neither a
\* live microphone stream nor a recording-ceiling timer behind.
C35_LateAcquisitionDropped ==
  [][LateAcquisitionStep
       => (~state'.isRecording /\ ~TrackLive' /\ ceilingTimers' = {})]_vars

\* the step calls clearError from an auto-hide timer or from cleanup()
ClearErrorStep == ErrorTimerStep \/ CleanupStep

\* C36: clearError is idempotent on the error record: applied to any record
\* the surface can hold, a second application yields what the first one did;
\* a call on an already-cleared surface leaves type and message null; and
\* the record left by a call is one that a further call does not change.
C36_ClearErrorIdempotent ==
  /\ [](clearError(clearError(error)) = clearError(error))
  /\ [][(ClearErrorStep /\ error = NoError) => error' = NoError]_vars
  /\ [][ClearErrorStep => clearError(error') = error']_vars

\* cleanup() ran twice (deactivation, then unmount) before any fault could
\* be reported: both calls of clearError met a cleared surface
C36_Witness ==
  /\ ~mounted /\ ~isActive /\ activations = 1
  /\ gumPending = 1 /\ recorders = <<>>
  /\ error = NoError /\ errorTimers = 0

====
